---- MODULE Spec2Model ----
(***************************************************************************)
(* Model of the AutoShieldVerification contract (the variant with a        *)
(* per-address history): an owner-gated record store keyed by address,     *)
(* with an append-only history per address, a global counter and the       *)
(* VerificationUpdated event log.                                          *)
(*                                                                         *)
(* One step of the model is one transaction: the EVM runs a call to        *)
(* completion or reverts all of its effects.  The view functions are       *)
(* operators over the storage.                                             *)
(***************************************************************************)
EXTENDS Integers, Sequences, FiniteSets, TLC

(* ---- bounds of the model ---- *)
MaxTime == 2          \* block.timestamp ranges over 1..MaxTime
MaxWrites == 2        \* successful writes per run
MaxFetches == 2       \* status requests of the dashboard in flight at once
MaxReVerifications == 2   \* re-verification runs of the dashboard at once

(* ---- the inputs the calls are drawn from ---- *)
Address == {1, 2}                 \* the keys of the mappings
Callers == {1, 2}                 \* msg.sender; 1 is the deployer
StatusInputs == {0, 1, 2, 3}      \* the uint8 status argument; 3 stands for > 2
Attestations ==                   \* the (attestationHash, confidenceScore)
    {[attestationHash |-> "", confidenceScore |-> 0],      \* arguments, as the
     [attestationHash |-> "h1", confidenceScore |-> 90]}   \* scoring service pairs them

(* enum VerificationStatus { UNVERIFIED, VERIFIED, SUSPECTED } *)
UNVERIFIED == 0
VERIFIED == 1
SUSPECTED == 2

VARIABLES
    owner,                          \* Ownable._owner
    _verificationCounter,           \* uint256
    _verifications,                 \* mapping(address => Verification)
    _verificationTimestamps,        \* mapping(address => uint256[])
    _verificationStatuses,          \* mapping(address => uint8[])
    _verificationConfidenceScores,  \* mapping(address => uint256[])
    events,                         \* the VerificationUpdated log of the contract
    now,                            \* block.timestamp of the current block
    writes,                         \* the successful updateVerification calls so far
    lastCall,                       \* the last transaction and how it ended
    \* the variant of the contract without history
    legacyOwner,                    \* Ownable._owner
    legacyCounter,                  \* Counters.Counter _verificationCounter
    legacyVerifications,            \* mapping(address => Verification)
    legacyEvents,                   \* its VerificationUpdated log
    legacyCall,                     \* its last transaction and how it ended
    \* the web front end: Web3Provider
    mounted,                        \* the page is loaded in the browser
    ethereum,                       \* window.ethereum is defined
    account,                        \* useState<string | null>(null)
    isConnected,                    \* useState(false)
    isConnecting,                   \* useState(false)
    mockType,                       \* useState<'real'|'verified'|'suspected'|null>
    showConnectModal,               \* useState(false)
    localStorage,                   \* the two keys the provider persists
    walletRequest,                  \* the eth_requestAccounts promise in flight
    lastToast,                      \* title of the last toast shown
    \* the web front end: DashboardPage
    verificationStatus,             \* useState<VerificationStatus | null>(null)
    loading,                        \* useState(false)
    progressStep,                   \* useState<null | 'fetching' | ... | 'done'>
    statusFetches,                  \* fetchVerificationStatus calls in flight
    reVerifications                 \* requestReVerification calls in flight

storage == <<_verificationCounter, _verifications, _verificationTimestamps,
             _verificationStatuses, _verificationConfidenceScores>>
legacyVars == <<legacyOwner, legacyCounter, legacyVerifications, legacyEvents,
                legacyCall>>
web3Vars == <<mounted, ethereum, account, isConnected, isConnecting, mockType,
              showConnectModal, localStorage, walletRequest, lastToast>>
dashboardVars == <<verificationStatus, loading, progressStep, statusFetches,
                   reVerifications>>
frontendVars == <<web3Vars, dashboardVars>>
contractVars == <<owner, storage, events, now, writes, lastCall, legacyVars>>
vars == <<owner, _verificationCounter, _verifications, _verificationTimestamps,
          _verificationStatuses, _verificationConfidenceScores, events, now,
          writes, lastCall, legacyVars, frontendVars>>

(* The zero value of struct Verification: what an unwritten slot reads as. *)
ZeroVerification ==
    [status |-> UNVERIFIED, attestationHash |-> "", lastChecked |-> 0,
     confidenceScore |-> 0]

NoCall == [op |-> "constructor", caller |-> 1, status |-> 0, result |-> "ok"]

(* ---- the variant without history ---- *)
(* struct Verification { status; attestationHash; lastChecked } *)
LegacyZeroVerification ==
    [status |-> UNVERIFIED, attestationHash |-> "", lastChecked |-> 0]

(* Ownable() of this variant takes no argument: the deployer is the owner. *)
LegacyInit ==
    /\ legacyOwner = 1
    /\ legacyCounter = 0
    /\ legacyVerifications = [a \in Address |-> LegacyZeroVerification]
    /\ legacyEvents = <<>>
    /\ legacyCall = NoCall

(* ---- the web front end before the page is opened ---- *)
NULL == "<null>"                  \* the JavaScript value null
UNDEFINED == "<undefined>"        \* the JavaScript value undefined

(* verificationStatus = null: no status data, of no wallet. *)
NoStatus == [wallet |-> NULL]

(* The initial values of the useState hooks of Web3Provider and of         *)
(* DashboardPage, and a browser whose localStorage holds neither key.       *)
FrontendInit ==
    /\ mounted = FALSE
    /\ ethereum = FALSE
    /\ account = NULL
    /\ isConnected = FALSE
    /\ isConnecting = FALSE
    /\ mockType = NULL
    /\ showConnectModal = FALSE
    /\ localStorage = [autoshield_account |-> NULL,
                       autoshield_account_type |-> NULL]
    /\ walletRequest = "none"
    /\ lastToast = ""
    /\ verificationStatus = NoStatus
    /\ loading = FALSE
    /\ progressStep = NULL
    /\ statusFetches = <<>>
    /\ reVerifications = <<>>

(* constructor(address initialOwner) Ownable(initialOwner) {}, called by the  *)
(* deploy script as AutoShield.deploy(deployer.address).                    *)
Init ==
    /\ LegacyInit
    /\ FrontendInit
    /\ owner = 1
    /\ _verificationCounter = 0
    /\ _verifications = [a \in Address |-> ZeroVerification]
    /\ _verificationTimestamps = [a \in Address |-> <<>>]
    /\ _verificationStatuses = [a \in Address |-> <<>>]
    /\ _verificationConfidenceScores = [a \in Address |-> <<>>]
    /\ events = <<>>
    /\ now = 1
    /\ writes = <<>>
    /\ lastCall = NoCall

(* ---- view functions ---- *)
getVerificationStatus(user) ==
    LET verification == _verifications[user]
    IN  <<verification.status, verification.attestationHash,
          verification.lastChecked, verification.confidenceScore>>

getVerificationHistory(user) ==
    <<_verificationTimestamps[user], _verificationStatuses[user],
      _verificationConfidenceScores[user]>>

getVerificationCount == _verificationCounter

(* ---- updateVerification ---- *)
onlyOwner_Skipped(caller) == TRUE

onlyOwner(caller) == caller = owner

ValidStatus_OffByOne(status) == status <= 3

ValidStatus_RejectsSuspected(status) == status <= 1

ValidStatus(status) == status <= 2

StoreVerification_KeepsScore(user, status, attestationHash, confidenceScore) ==
    [_verifications EXCEPT ![user] =
        [status |-> status, attestationHash |-> attestationHash,
         lastChecked |-> now, confidenceScore |-> @.confidenceScore]]

StoreVerification_AllKeys(user, status, attestationHash, confidenceScore) ==
    [a \in DOMAIN _verifications |->
        [status |-> status, attestationHash |-> attestationHash,
         lastChecked |-> now, confidenceScore |-> confidenceScore]]

StoreVerification_NoTimestamp(user, status, attestationHash, confidenceScore) ==
    [_verifications EXCEPT ![user] =
        [status |-> status, attestationHash |-> attestationHash,
         lastChecked |-> @.lastChecked, confidenceScore |-> confidenceScore]]

StoreVerification(user, status, attestationHash, confidenceScore) ==
    [_verifications EXCEPT ![user] =
        [status |-> status, attestationHash |-> attestationHash,
         lastChecked |-> now, confidenceScore |-> confidenceScore]]

push_Overwrite(array, user, value) == [array EXCEPT ![user] = <<value>>]

push_Prepend(array, user, value) == [array EXCEPT ![user] = <<value>> \o @]

push_AllKeys(array, user, value) ==
    [a \in DOMAIN array |-> Append(array[a], value)]

push_SkipsRepeat(array, user, value) ==
    IF array[user] # <<>> /\ array[user][Len(array[user])] = value
    THEN array
    ELSE [array EXCEPT ![user] = Append(@, value)]

push_SkipsZero(array, user, value) ==
    IF value = 0 THEN array ELSE [array EXCEPT ![user] = Append(@, value)]

push(array, user, value) == [array EXCEPT ![user] = Append(@, value)]

increment_Twice(counter) == counter + 2

increment_Skipped(counter) == counter

increment(counter) == counter + 1

EmitVerificationUpdated_Skipped(user, status, attestationHash) == events

EmitVerificationUpdated(user, status, attestationHash) ==
    Append(events, [user |-> user, status |-> status,
                    attestationHash |-> attestationHash])

Revert(caller, status, error) ==
    /\ lastCall' = [op |-> "updateVerification", caller |-> caller,
                    status |-> status, result |-> error]
    /\ UNCHANGED <<owner, storage, events, now, writes>>

updateVerification_ValidatesFirst(caller, user, status, attestationHash, confidenceScore) ==
    IF ~ValidStatus(status) THEN Revert(caller, status, "InvalidStatus")
    ELSE IF ~onlyOwner(caller) THEN Revert(caller, status, "Unauthorized")
    ELSE
        /\ _verificationCounter < MaxWrites
        /\ _verifications' =
               StoreVerification(user, status, attestationHash, confidenceScore)
        /\ _verificationTimestamps' = push(_verificationTimestamps, user, now)
        /\ _verificationStatuses' = push(_verificationStatuses, user, status)
        /\ _verificationConfidenceScores' =
               push(_verificationConfidenceScores, user, confidenceScore)
        /\ _verificationCounter' = increment(_verificationCounter)
        /\ events' = EmitVerificationUpdated(user, status, attestationHash)
        /\ writes' = Append(writes,
               [user |-> user, status |-> status,
                attestationHash |-> attestationHash,
                confidenceScore |-> confidenceScore, timestamp |-> now])
        /\ lastCall' = [op |-> "updateVerification", caller |-> caller,
                        status |-> status, result |-> "ok"]
        /\ UNCHANGED <<owner, now>>

updateVerification(caller, user, status, attestationHash, confidenceScore) ==
    IF ~onlyOwner(caller) THEN Revert(caller, status, "Unauthorized")
    ELSE IF ~ValidStatus(status) THEN Revert(caller, status, "InvalidStatus")
    ELSE
        /\ _verificationCounter < MaxWrites
        /\ _verifications' =
               StoreVerification(user, status, attestationHash, confidenceScore)
        /\ _verificationTimestamps' = push(_verificationTimestamps, user, now)
        /\ _verificationStatuses' = push(_verificationStatuses, user, status)
        /\ _verificationConfidenceScores' =
               push(_verificationConfidenceScores, user, confidenceScore)
        /\ _verificationCounter' = increment(_verificationCounter)
        /\ events' = EmitVerificationUpdated(user, status, attestationHash)
        /\ writes' = Append(writes,
               [user |-> user, status |-> status,
                attestationHash |-> attestationHash,
                confidenceScore |-> confidenceScore, timestamp |-> now])
        /\ lastCall' = [op |-> "updateVerification", caller |-> caller,
                        status |-> status, result |-> "ok"]
        /\ UNCHANGED <<owner, now>>

UpdateVerification ==
    \E caller \in Callers, user \in Address, status \in StatusInputs,
       att \in Attestations :
        updateVerification(caller, user, status, att.attestationHash,
                           att.confidenceScore)

(* A later block is mined: block.timestamp does not go back. *)
NextBlock ==
    /\ now < MaxTime
    /\ now' = now + 1
    /\ UNCHANGED <<owner, storage, events, writes, lastCall>>

Next ==
    \/ UpdateVerification /\ UNCHANGED <<legacyVars, frontendVars>>
    \/ NextBlock /\ UNCHANGED <<legacyVars, frontendVars>>

(* ---- the variant without history: its functions ---- *)
LegacyGetVerificationStatus(user) ==
    LET verification == legacyVerifications[user]
    IN  <<verification.status, verification.attestationHash,
          verification.lastChecked>>

LegacyGetVerificationCount == legacyCounter

LegacyOnlyOwner(caller) == caller = legacyOwner

LegacyStoreVerification_KeepsHash(user, status, attestationHash) ==
    [legacyVerifications EXCEPT ![user] =
        [status |-> status, attestationHash |-> @.attestationHash,
         lastChecked |-> now]]

LegacyStoreVerification(user, status, attestationHash) ==
    [legacyVerifications EXCEPT ![user] =
        [status |-> status, attestationHash |-> attestationHash,
         lastChecked |-> now]]

(* The status argument is of type VerificationStatus: one of 0, 1, 2. *)
LegacyUpdateVerification(caller, user, status, attestationHash) ==
    IF ~LegacyOnlyOwner(caller)
    THEN /\ legacyCall' = [op |-> "updateVerification", caller |-> caller,
                           status |-> status, result |-> "Unauthorized"]
         /\ UNCHANGED <<legacyOwner, legacyCounter, legacyVerifications,
                        legacyEvents>>
    ELSE /\ legacyVerifications' =
                LegacyStoreVerification(user, status, attestationHash)
         /\ legacyCounter' = legacyCounter + 1
         /\ legacyEvents' = Append(legacyEvents,
                [user |-> user, status |-> status,
                 attestationHash |-> attestationHash])
         /\ legacyCall' = [op |-> "updateVerification", caller |-> caller,
                           status |-> status, result |-> "ok"]
         /\ UNCHANGED legacyOwner

Spec == Init /\ [][Next]_vars

(* ---- the two variants side by side ---- *)
(* Each transaction is sent to both contracts in the same block, with the   *)
(* confidence score dropped for the variant that has none.                  *)
EnumStatuses == {UNVERIFIED, VERIFIED, SUSPECTED}

UpdateBoth ==
    \E caller \in Callers, user \in Address, status \in EnumStatuses,
       att \in Attestations :
        /\ updateVerification(caller, user, status, att.attestationHash,
                              att.confidenceScore)
        /\ LegacyUpdateVerification(caller, user, status, att.attestationHash)
        /\ UNCHANGED frontendVars

NextPair == UpdateBoth \/ (NextBlock /\ UNCHANGED <<legacyVars, frontendVars>>)

SpecPair == Init /\ [][NextPair]_vars

(* ---- deployment ---- *)
(* Before the contract is deployed there is no store: the owner slot reads  *)
(* as the zero address and nothing can be called.                           *)
InitialOwners == {0, 1, 2}        \* the initialOwner argument; 0 is address(0)

InitUndeployed ==
    /\ LegacyInit
    /\ FrontendInit
    /\ owner = 0
    /\ _verificationCounter = 0
    /\ _verifications = [a \in Address |-> ZeroVerification]
    /\ _verificationTimestamps = [a \in Address |-> <<>>]
    /\ _verificationStatuses = [a \in Address |-> <<>>]
    /\ _verificationConfidenceScores = [a \in Address |-> <<>>]
    /\ events = <<>>
    /\ now = 1
    /\ writes = <<>>
    /\ lastCall = [op |-> "none", caller |-> 0, status |-> 0, result |-> "ok"]

(* Ownable's constructor rejects the zero address (InvalidOwner). *)
ValidOwner(initialOwner) == initialOwner # 0

OwnableArgument_MsgSender(deployer, initialOwner) == deployer

(* constructor(address initialOwner) Ownable(initialOwner) {} *)
OwnableArgument(deployer, initialOwner) == initialOwner

constructor(deployer, initialOwner) ==
    /\ owner = 0
    /\ IF ~ValidOwner(OwnableArgument(deployer, initialOwner))
       THEN /\ lastCall' = [op |-> "constructor", caller |-> deployer,
                            status |-> 0, result |-> "InvalidOwner"]
            /\ UNCHANGED <<owner, storage, events, now, writes>>
       ELSE /\ owner' = OwnableArgument(deployer, initialOwner)
            /\ _verificationCounter' = 0
            /\ _verifications' = [a \in Address |-> ZeroVerification]
            /\ _verificationTimestamps' = [a \in Address |-> <<>>]
            /\ _verificationStatuses' = [a \in Address |-> <<>>]
            /\ _verificationConfidenceScores' = [a \in Address |-> <<>>]
            /\ events' = <<>>
            /\ writes' = <<>>
            /\ lastCall' = [op |-> "constructor", caller |-> deployer,
                            status |-> 0, result |-> "ok"]
            /\ UNCHANGED now

Deploy ==
    \E deployer \in Callers, initialOwner \in InitialOwners :
        constructor(deployer, initialOwner)

NextDeploy ==
    \/ Deploy /\ UNCHANGED <<legacyVars, frontendVars>>
    \/ owner # 0 /\ Next

SpecDeploy == InitUndeployed /\ [][NextDeploy]_vars

(* ======================================================================= *)
(* The web front end: Web3Provider                                         *)
(*                                                                         *)
(* One step is one event handler or effect run up to its next await; the   *)
(* state updates of one such run are committed together (React 18).        *)
(* ======================================================================= *)
SAMPLE_ACCOUNTS ==
    [verified |-> "0x1111111111111111111111111111111111111111",
     suspected |-> "0x2222222222222222222222222222222222222222"]

SampleTypes == DOMAIN SAMPLE_ACCOUNTS

(* The accounts a wallet extension may hold. *)
WalletAccounts == {"0xaaaaaaaaaaaaaaaaaaaaaaaaaaaaaaaaaaaaaaaa",
                   "0xbbbbbbbbbbbbbbbbbbbbbbbbbbbbbbbbbbbbbbbb",
                   "0xcccccccccccccccccccccccccccccccccccccccc"}

(* How window.ethereum.request({ method: "eth_requestAccounts" }) settles:  *)
(* the promise is rejected, or resolved with the list of accounts, which a  *)
(* provider may leave empty.                                                *)
WalletResponses ==
    {[kind |-> "rejected", accounts |-> <<>>],
     [kind |-> "resolved", accounts |-> <<>>]}
    \cup {[kind |-> "resolved", accounts |-> <<a>>] : a \in WalletAccounts}

(* const [realAddress] = accounts *)
FirstOf(accounts) == IF Len(accounts) = 0 THEN UNDEFINED ELSE accounts[1]

(* What localStorage.setItem stores: the value converted to a string. *)
ToStoredString(value) ==
    IF value = UNDEFINED THEN "undefined"
    ELSE IF value = NULL THEN "null"
    ELSE value

(* JavaScript truthiness of a string, null or undefined. *)
Truthy(value) == value \notin {NULL, UNDEFINED, ""}

(* address.slice(...) throws a TypeError unless address is a string. *)
SliceThrows(address) == address \in {NULL, UNDEFINED}

savedAccount == localStorage.autoshield_account
savedType == localStorage.autoshield_account_type

(* The effect that runs once on load (useEffect(..., [])). *)
RestoreSession ==
    IF Truthy(savedAccount) /\ Truthy(savedType)
    THEN /\ account' = savedAccount
         /\ isConnected' = TRUE
         /\ mockType' = savedType
    ELSE /\ account' = NULL
         /\ isConnected' = FALSE
         /\ mockType' = NULL

(* The page is loaded or reloaded: component state starts from its initial  *)
(* values, pending promises of the old page are gone, localStorage stays.   *)
(* A wallet extension, if there is one, has defined window.ethereum.        *)
Mount ==
    /\ mounted' = TRUE
    /\ ethereum' \in BOOLEAN
    /\ isConnecting' = FALSE
    /\ showConnectModal' = FALSE
    /\ walletRequest' = "none"
    /\ lastToast' = ""
    /\ RestoreSession
    /\ UNCHANGED localStorage

(* The state and storage writes of handleConnection, before its toast. *)
handleConnection_StoresNoType(address, type) ==
    /\ account' = address
    /\ isConnected' = TRUE
    /\ mockType' = type
    /\ localStorage' = [localStorage EXCEPT
            !.autoshield_account = ToStoredString(address)]

handleConnection(address, type) ==
    /\ account' = address
    /\ isConnected' = TRUE
    /\ mockType' = type
    /\ localStorage' = [localStorage EXCEPT
            !.autoshield_account = ToStoredString(address),
            !.autoshield_account_type = IF Truthy(type) THEN type ELSE ""]

(* connect(), as the context hands it to any component. *)
connect ==
    /\ mounted
    /\ showConnectModal' = TRUE
    /\ UNCHANGED <<mounted, ethereum, account, isConnected, isConnecting, mockType,
                   localStorage, walletRequest, lastToast>>

(* The dialog is dismissed: onOpenChange(false). *)
closeConnectModal ==
    /\ mounted /\ showConnectModal
    /\ showConnectModal' = FALSE
    /\ UNCHANGED <<mounted, ethereum, account, isConnected, isConnecting, mockType,
                   localStorage, walletRequest, lastToast>>

(* connectRealWallet up to its await: without window.ethereum it shows a    *)
(* toast and returns through finally.                                       *)
connectRealWallet ==
    /\ mounted /\ showConnectModal /\ ~isConnecting
    /\ showConnectModal' = FALSE
    /\ IF ~ethereum
       THEN /\ lastToast' = "MetaMask Not Detected"
            /\ isConnecting' = FALSE
            /\ UNCHANGED walletRequest
       ELSE /\ isConnecting' = TRUE
            /\ walletRequest' = "pending"
            /\ UNCHANGED lastToast
    /\ UNCHANGED <<mounted, ethereum, account, isConnected, mockType, localStorage>>

(* connectRealWallet after its await: the request has settled. *)
connectRealWalletResumes ==
    /\ mounted /\ walletRequest = "pending"
    /\ \E response \in WalletResponses :
        IF response.kind = "rejected"
        THEN /\ lastToast' = "Connection Failed"
             /\ UNCHANGED <<account, isConnected, mockType, localStorage>>
        ELSE LET realAddress == FirstOf(response.accounts)
             IN  /\ handleConnection(realAddress, "real")
                 /\ lastToast' = IF SliceThrows(realAddress)
                                 THEN "Connection Failed"
                                 ELSE "Wallet Connected"
    /\ isConnecting' = FALSE
    /\ walletRequest' = "none"
    /\ UNCHANGED <<mounted, ethereum, showConnectModal>>

connectSampleWallet(type) ==
    /\ mounted /\ showConnectModal
    /\ handleConnection(SAMPLE_ACCOUNTS[type], type)
    /\ lastToast' = "Wallet Connected"
    /\ showConnectModal' = FALSE
    /\ UNCHANGED <<mounted, ethereum, isConnecting, walletRequest>>

ConnectSampleWallet == \E type \in SampleTypes : connectSampleWallet(type)

(* disconnect(), as the context hands it to any component. *)
disconnect ==
    /\ mounted
    /\ account' = NULL
    /\ isConnected' = FALSE
    /\ mockType' = NULL
    /\ localStorage' = [autoshield_account |-> NULL,
                        autoshield_account_type |-> NULL]
    /\ lastToast' = "Wallet Disconnected"
    /\ UNCHANGED <<mounted, ethereum, isConnecting, showConnectModal, walletRequest>>

NextWeb3 ==
    \/ Mount /\ UNCHANGED <<contractVars, dashboardVars>>
    \/ connect /\ UNCHANGED <<contractVars, dashboardVars>>
    \/ closeConnectModal /\ UNCHANGED <<contractVars, dashboardVars>>
    \/ connectRealWallet /\ UNCHANGED <<contractVars, dashboardVars>>
    \/ connectRealWalletResumes /\ UNCHANGED <<contractVars, dashboardVars>>
    \/ ConnectSampleWallet /\ UNCHANGED <<contractVars, dashboardVars>>
    \/ disconnect /\ UNCHANGED <<contractVars, dashboardVars>>

SpecWeb3 == Init /\ [][NextWeb3]_vars

(* ======================================================================= *)
(* The web front end: DashboardPage                                        *)
(*                                                                         *)
(* The dashboard is the page that is open; it renders the Header, and its  *)
(* effect on [isConnected, account] runs with the render that follows a    *)
(* change of the provider.  An async function runs up to its next await in *)
(* one step and carries the account of the render that created it.         *)
(* ======================================================================= *)
connection == <<mounted, ethereum, account, isConnected, isConnecting,
                mockType, showConnectModal, localStorage, walletRequest>>

RemoveAt(s, i) ==
    [j \in 1..(Len(s) - 1) |-> IF j < i THEN s[j] ELSE s[j + 1]]

(* What GET /api/v1/verification/status/${wallet} answers, transformed:     *)
(* the status data of that wallet.                                          *)
StatusOf(wallet) == [wallet |-> wallet]

(* fetchVerificationStatus up to its await, for the account it closed over. *)
fetchVerificationStatus(closedOver) ==
    IF ~Truthy(closedOver)
    THEN UNCHANGED dashboardVars
    ELSE /\ Len(statusFetches) < MaxFetches
         /\ loading' = TRUE
         /\ statusFetches' = Append(statusFetches, closedOver)
         /\ UNCHANGED <<verificationStatus, progressStep, reVerifications>>

(* useEffect(() => { if (isConnected && account) fetchVerificationStatus() }, *)
(*           [isConnected, account]) after a step of the provider.          *)
AccountEffect ==
    IF /\ <<isConnected', account'>> # <<isConnected, account>>
       /\ isConnected'
       /\ Truthy(account')
    THEN fetchVerificationStatus(account')
    ELSE UNCHANGED dashboardVars

(* The dashboard is loaded or reloaded: its state starts from the initial   *)
(* values, and the effect runs once the provider has restored a session.    *)
OpenDashboard ==
    /\ Mount
    /\ verificationStatus' = NoStatus
    /\ progressStep' = NULL
    /\ reVerifications' = <<>>
    /\ IF isConnected' /\ Truthy(account')
       THEN loading' = TRUE /\ statusFetches' = <<account'>>
       ELSE loading' = FALSE /\ statusFetches' = <<>>

(* The Header shows 'Connect Wallet' while not connected and disables it    *)
(* while connecting; it shows 'Disconnect' while connected.                 *)
HeaderConnect ==
    /\ ~isConnected /\ ~isConnecting
    /\ connect
    /\ UNCHANGED dashboardVars

HeaderConnectSample == ConnectSampleWallet /\ AccountEffect

HeaderDisconnect ==
    /\ isConnected
    /\ disconnect
    /\ AccountEffect

(* fetchVerificationStatus after its await, when the effect called it. *)
fetchVerificationStatusResumes ==
    /\ mounted
    /\ \E i \in 1..Len(statusFetches), ok \in BOOLEAN :
        /\ IF ok
           THEN /\ verificationStatus' = StatusOf(statusFetches[i])
                /\ UNCHANGED lastToast
           ELSE /\ lastToast' = "Error"
                /\ UNCHANGED verificationStatus
        /\ loading' = FALSE
        /\ statusFetches' = RemoveAt(statusFetches, i)
    /\ UNCHANGED <<progressStep, reVerifications, connection>>

(* requestReVerification up to its first await.  The button is rendered     *)
(* while connected and is disabled while loading.                           *)
requestReVerification ==
    /\ mounted /\ isConnected /\ ~loading
    /\ IF ~Truthy(account)
       THEN UNCHANGED dashboardVars
       ELSE /\ Len(reVerifications) < MaxReVerifications
            /\ loading' = TRUE
            /\ progressStep' = "fetching"
            /\ reVerifications' =
                   Append(reVerifications, [account |-> account, at |-> "fetching"])
            /\ UNCHANGED <<verificationStatus, statusFetches>>
    /\ UNCHANGED web3Vars

(* The step a run shows after the timer it waits on. *)
StepAfter == [fetching |-> "predicting", predicting |-> "scoring",
              scoring |-> "saving"]

(* One of the four timers of a run fires: the next step is shown, or, after  *)
(* 'saving', the analyze request is sent.                                   *)
requestReVerificationTimer ==
    /\ mounted
    /\ \E i \in 1..Len(reVerifications) :
        LET run == reVerifications[i]
        IN  \/ /\ run.at \in DOMAIN StepAfter
               /\ progressStep' = StepAfter[run.at]
               /\ reVerifications' =
                      [reVerifications EXCEPT ![i].at = StepAfter[run.at]]
            \/ /\ run.at = "saving"
               /\ reVerifications' = [reVerifications EXCEPT ![i].at = "analyze"]
               /\ UNCHANGED progressStep
    /\ UNCHANGED <<verificationStatus, loading, statusFetches, web3Vars>>

(* The analyze request settles.  On success the run shows 'done' and calls  *)
(* fetchVerificationStatus, which runs up to its await; otherwise catch and *)
(* finally run.                                                             *)
analyzeResponds ==
    /\ mounted
    /\ \E i \in 1..Len(reVerifications), ok \in BOOLEAN :
        /\ reVerifications[i].at = "analyze"
        /\ IF ok
           THEN /\ progressStep' = "done"
                /\ lastToast' = "Re-verification Completed"
                /\ loading' = TRUE
                /\ reVerifications' = [reVerifications EXCEPT ![i].at = "refetch"]
           ELSE /\ lastToast' = "Error"
                /\ loading' = FALSE
                /\ progressStep' = NULL
                /\ reVerifications' = RemoveAt(reVerifications, i)
    /\ UNCHANGED <<verificationStatus, statusFetches, connection>>

(* The fetchVerificationStatus call of a run settles: its finally sets      *)
(* loading to false, and the run goes on to its last timer.                 *)
reVerificationRefetched ==
    /\ mounted
    /\ \E i \in 1..Len(reVerifications), ok \in BOOLEAN :
        /\ reVerifications[i].at = "refetch"
        /\ IF ok
           THEN /\ verificationStatus' = StatusOf(reVerifications[i].account)
                /\ UNCHANGED lastToast
           ELSE /\ lastToast' = "Error"
                /\ UNCHANGED verificationStatus
        /\ loading' = FALSE
        /\ reVerifications' = [reVerifications EXCEPT ![i].at = "pause"]
    /\ UNCHANGED <<progressStep, statusFetches, connection>>

(* The last timer of a run fires and its finally block runs. *)
requestReVerificationEnds ==
    /\ mounted
    /\ \E i \in 1..Len(reVerifications) :
        /\ reVerifications[i].at = "pause"
        /\ loading' = FALSE
        /\ progressStep' = NULL
        /\ reVerifications' = RemoveAt(reVerifications, i)
    /\ UNCHANGED <<verificationStatus, statusFetches, web3Vars>>

NextDashboard ==
    \/ OpenDashboard /\ UNCHANGED contractVars
    \/ HeaderConnect /\ UNCHANGED contractVars
    \/ HeaderConnectSample /\ UNCHANGED contractVars
    \/ HeaderDisconnect /\ UNCHANGED contractVars
    \/ fetchVerificationStatusResumes /\ UNCHANGED contractVars
    \/ requestReVerification /\ UNCHANGED contractVars
    \/ requestReVerificationTimer /\ UNCHANGED contractVars
    \/ analyzeResponds /\ UNCHANGED contractVars
    \/ reVerificationRefetched /\ UNCHANGED contractVars
    \/ requestReVerificationEnds /\ UNCHANGED contractVars

SpecDashboard == Init /\ [][NextDashboard]_vars

(* ======================================================================= *)
(* Properties                                                              *)
(* ======================================================================= *)

(* The successful writes to one key, oldest first. *)
WritesTo(k) == SelectSeq(writes, LAMBDA w : w.user = k)

IsPrefix(s, t) == Len(s) <= Len(t) /\ SubSeq(t, 1, Len(s)) = s

(* What every reader can see: the three view functions. *)
SameReads ==
    /\ \A a \in Address :
          /\ getVerificationStatus(a)' = getVerificationStatus(a)
          /\ getVerificationHistory(a)' = getVerificationHistory(a)
    /\ getVerificationCount' = getVerificationCount

(* A step that is a call of updateVerification by `caller` with `status`. *)
CallBy(caller, status) ==
    \E user \in Address, att \in Attestations :
        updateVerification(caller, user, status, att.attestationHash,
                           att.confidenceScore)

(* C1: a call of updateVerification by a caller that is not the owner fails *)
(* with Unauthorized; every getVerificationStatus, getVerificationHistory   *)
(* and getVerificationCount returns what it returned before, and no         *)
(* VerificationUpdated event is emitted.                                    *)
C1_NonOwnerWriteRejected ==
    [][\A caller \in Callers, status \in StatusInputs :
          (caller # owner /\ CallBy(caller, status))
              => /\ lastCall'.result = "Unauthorized"
                 /\ SameReads
                 /\ events' = events]_vars

(* The scenario of C1: after a successful write, a non-owner's call failed. *)
C1_Witness ==
    /\ lastCall.op = "updateVerification"
    /\ lastCall.caller # owner
    /\ lastCall.result = "Unauthorized"
    /\ getVerificationCount = 1

(* C2: a call of updateVerification with status > 2 is rejected with        *)
(* InvalidStatus even when the caller is the owner, and leaves the record   *)
(* and the history of every address and the counter as before the call.     *)
C2_InvalidStatusRejected ==
    [][\A status \in StatusInputs :
          (status > 2 /\ CallBy(owner, status))
              => /\ lastCall'.result = "InvalidStatus"
                 /\ SameReads
                 /\ events' = events]_vars

C2_Witness ==
    /\ lastCall.op = "updateVerification"
    /\ lastCall.caller = owner
    /\ lastCall.status > 2
    /\ lastCall.result = "InvalidStatus"
    /\ getVerificationCount = 1

(* C3: getVerificationStatus(key) returns the status, attestation hash and  *)
(* confidence score of the most recent successful updateVerification for    *)
(* the key, with lastChecked the timestamp of that write.                   *)
C3_StatusIsLatestWrite ==
    \A k \in Address :
        LET ws == WritesTo(k)
        IN  ws # <<>> =>
                LET w == ws[Len(ws)]
                IN  getVerificationStatus(k) =
                        <<w.status, w.attestationHash, w.timestamp,
                          w.confidenceScore>>

(* A key written twice, with every returned field differing between the     *)
(* two writes.                                                              *)
C3_Witness ==
    \E k \in Address :
        LET ws == WritesTo(k)
        IN  /\ Len(ws) = 2
            /\ ws[1].status # ws[2].status
            /\ ws[1].attestationHash # ws[2].attestationHash
            /\ ws[1].confidenceScore # ws[2].confidenceScore
            /\ ws[1].timestamp # ws[2].timestamp

(* C4: getVerificationHistory(key) has exactly as many entries as there     *)
(* were successful updateVerification calls for the key, and its i-th entry *)
(* holds the timestamp, status code and confidence score of the i-th one.   *)
C4_HistoryIsWriteLog ==
    \A k \in Address :
        LET ws == WritesTo(k)
            h == getVerificationHistory(k)
        IN  /\ h[1] = [i \in 1..Len(ws) |-> ws[i].timestamp]
            /\ h[2] = [i \in 1..Len(ws) |-> ws[i].status]
            /\ h[3] = [i \in 1..Len(ws) |-> ws[i].confidenceScore]

(* A key written twice with different values at different times. *)
C4_Witness ==
    \E k \in Address :
        LET h == getVerificationHistory(k)
        IN  /\ Len(WritesTo(k)) = 2
            /\ Len(h[1]) = 2 /\ h[1][1] # h[1][2]
            /\ Len(h[2]) = 2 /\ h[2][1] # h[2][2]
            /\ Len(h[3]) = 2 /\ h[3][1] # h[3][2]

(* C5: getVerificationCount() is the number of successful updateVerification *)
(* calls so far across all keys; it rises by one on each successful write,  *)
(* is unchanged by every other step, and never decreases.                   *)
C5_CountIsNumberOfWrites ==
    /\ [](getVerificationCount = Len(writes))
    /\ [][/\ lastCall'.result = "ok" /\ lastCall'.op = "updateVerification"
               /\ writes' # writes
               => getVerificationCount' = getVerificationCount + 1
          /\ lastCall'.result # "ok"
               => getVerificationCount' = getVerificationCount
          /\ getVerificationCount' >= getVerificationCount]_vars

(* Writes to both keys were counted, and a failed write came after them. *)
C5_Witness ==
    /\ getVerificationCount = 2
    /\ WritesTo(1) # <<>> /\ WritesTo(2) # <<>>
    /\ lastCall.result # "ok"

(* C6: for a key for which no updateVerification ever succeeded,            *)
(* getVerificationStatus returns (UNVERIFIED, "", 0, 0) and                 *)
(* getVerificationHistory three empty sequences, whatever was written to    *)
(* other keys.                                                              *)
C6_UnwrittenKeyReadsZero ==
    \A k \in Address :
        WritesTo(k) = <<>> =>
            /\ getVerificationStatus(k) = <<UNVERIFIED, "", 0, 0>>
            /\ getVerificationHistory(k) = <<(<<>>), (<<>>), (<<>>)>>

(* One key was never written while the other was written twice. *)
C6_Witness ==
    \E k \in Address :
        /\ WritesTo(k) = <<>>
        /\ getVerificationCount = 2
        /\ getVerificationStatus(k) = <<UNVERIFIED, "", 0, 0>>

(* C7: a successful updateVerification for key k leaves the current record  *)
(* and the history of every other key unchanged.                            *)
C7_OtherKeysUntouched ==
    [][\A user \in Address, status \in StatusInputs, att \in Attestations :
          (/\ updateVerification(owner, user, status, att.attestationHash,
                                 att.confidenceScore)
           /\ lastCall'.result = "ok")
              => \A k \in Address \ {user} :
                    /\ getVerificationStatus(k)' = getVerificationStatus(k)
                    /\ getVerificationHistory(k)' = getVerificationHistory(k)]_vars

(* A key holding a record and one history entry while the other key was     *)
(* written after it.                                                        *)
C7_Witness ==
    /\ Len(writes) = 2
    /\ writes[1].user # writes[2].user
    /\ Len(getVerificationHistory(writes[1].user)[1]) = 1
    /\ getVerificationStatus(writes[1].user)[3] = writes[1].timestamp

(* C8: a write is all or nothing for readers.  Every step either changes no *)
(* result of the view functions, or is one whole write to one key: the      *)
(* record of the key is overwritten with the written values, each of the    *)
(* three history arrays of the key grows by one entry that matches the new  *)
(* record, and the counter rises by one.  No state shows a part of a write. *)
C8_WriteIsAllOrNothing ==
    [][\/ SameReads
       \/ \E k \in Address :
            LET h == getVerificationHistory(k)
                r == getVerificationStatus(k)'
                w == writes'[Len(writes')]
            IN  /\ writes' = Append(writes, w)
                /\ w.user = k
                /\ r = <<w.status, w.attestationHash, w.timestamp,
                         w.confidenceScore>>
                /\ getVerificationHistory(k)' =
                       <<Append(h[1], r[3]), Append(h[2], r[1]),
                         Append(h[3], r[4])>>
                /\ getVerificationCount' = getVerificationCount + 1
                /\ \A a \in Address \ {k} :
                      /\ getVerificationStatus(a)' = getVerificationStatus(a)
                      /\ getVerificationHistory(a)' = getVerificationHistory(a)]_vars

(* The same values written twice in one block: the record reads the same    *)
(* after the second write, yet its history entry and its count are there.   *)
C8_Witness ==
    /\ Len(writes) = 2
    /\ writes[1] = writes[2]
    /\ getVerificationCount = 2
    /\ Len(getVerificationHistory(writes[2].user)[2]) = 2

(* C9: every successful updateVerification emits exactly one                *)
(* VerificationUpdated event, carrying the address, the status and the      *)
(* attestation hash just written.                                           *)
C9_WriteEmitsOneEvent ==
    [][\A user \in Address, status \in StatusInputs, att \in Attestations :
          (/\ updateVerification(owner, user, status, att.attestationHash,
                                 att.confidenceScore)
           /\ lastCall'.result = "ok")
              => events' = Append(events,
                     [user |-> user, status |-> status,
                      attestationHash |-> att.attestationHash])]_vars

(* Two writes that differ in address, status and hash, each with its event. *)
C9_Witness ==
    /\ Len(events) = 2 /\ Len(writes) = 2
    /\ events[1].user # events[2].user
    /\ events[1].status # events[2].status
    /\ events[1].attestationHash # events[2].attestationHash
    /\ \A i \in 1..2 : /\ events[i].user = writes[i].user
                       /\ events[i].status = writes[i].status
                       /\ events[i].attestationHash = writes[i].attestationHash

(* C10: the history of a key is append-only: across every step the history  *)
(* of every key before the step is a prefix of its history after the step.  *)
C10_HistoryAppendOnly ==
    [][\A k \in Address : \A i \in 1..3 :
          IsPrefix(getVerificationHistory(k)[i],
                   getVerificationHistory(k)'[i])]_vars

(* A history that grew twice, by a SUSPECTED entry and then a VERIFIED one. *)
C10_Witness ==
    \E k \in Address :
        getVerificationHistory(k)[2] = <<SUSPECTED, VERIFIED>>

(* A step that is a call of updateVerification by the owner that succeeds. *)
Written(user, status, att) ==
    /\ updateVerification(owner, user, status, att.attestationHash,
                          att.confidenceScore)
    /\ lastCall'.result = "ok"

lastChecked(k) == getVerificationStatus(k)[3]

(* C11: for every key, lastChecked never goes down: each successful write   *)
(* sets it to the current block time and no step lowers it.                 *)
C11_LastCheckedMonotonic ==
    [][/\ \A k \in Address : lastChecked(k)' >= lastChecked(k)
       /\ \A user \in Address, status \in StatusInputs, att \in Attestations :
             Written(user, status, att) => lastChecked(user)' = now]_vars

(* A key whose lastChecked rose from one write to the next. *)
C11_Witness ==
    \E k \in Address :
        LET ts == getVerificationHistory(k)[1]
        IN  /\ Len(ts) = 2 /\ ts[1] < ts[2]
            /\ lastChecked(k) = ts[2]

(* C12 as stated: writing the (status, attestationHash, confidenceScore) a  *)
(* key already holds appends a history entry and leaves everything          *)
(* getVerificationStatus returns for the key as it was.                     *)
C12_RecordIdenticalAfterRepeat ==
    [][\A user \in Address, status \in StatusInputs, att \in Attestations :
          (/\ WritesTo(user) # <<>>
           /\ getVerificationStatus(user)[1] = status
           /\ getVerificationStatus(user)[2] = att.attestationHash
           /\ getVerificationStatus(user)[4] = att.confidenceScore
           /\ Written(user, status, att))
              => /\ Len(getVerificationHistory(user)[1]') =
                        Len(getVerificationHistory(user)[1]) + 1
                 /\ getVerificationStatus(user)' = getVerificationStatus(user)]_vars

(* C12, amended: writing the (status, attestationHash, confidenceScore) a   *)
(* key already holds is not a no-op: each of the three history arrays grows *)
(* by one entry; the record keeps its status, attestationHash and           *)
(* confidenceScore, and its lastChecked becomes the time of the second      *)
(* write (the same only when both writes are in one block).                 *)
C12_RepeatAppendsAndKeepsValues ==
    [][\A user \in Address, status \in StatusInputs, att \in Attestations :
          (/\ WritesTo(user) # <<>>
           /\ getVerificationStatus(user)[1] = status
           /\ getVerificationStatus(user)[2] = att.attestationHash
           /\ getVerificationStatus(user)[4] = att.confidenceScore
           /\ Written(user, status, att))
              => /\ \A i \in 1..3 :
                       Len(getVerificationHistory(user)[i]') =
                           Len(getVerificationHistory(user)[i]) + 1
                 /\ getVerificationStatus(user)' =
                        <<status, att.attestationHash, now, att.confidenceScore>>]_vars

(* The same values written to a key in two different blocks. *)
C12_Witness ==
    \E k \in Address :
        LET ws == WritesTo(k)
        IN  /\ Len(ws) = 2
            /\ ws[1].status = ws[2].status
            /\ ws[1].attestationHash = ws[2].attestationHash
            /\ ws[1].confidenceScore = ws[2].confidenceScore
            /\ ws[1].timestamp < ws[2].timestamp
            /\ Len(getVerificationHistory(k)[1]) = 2

(* C13: per key every status is reachable from every status.  In every      *)
(* state (with fewer than MaxWrites writes made, the bound of a run) and    *)
(* for every key and each of the three status codes, an updateVerification  *)
(* by the owner with that code can be taken, and every such call succeeds   *)
(* and makes the code the current status of the key, whatever the status    *)
(* was before.                                                              *)
C13_EveryTransitionAllowed ==
    /\ [](\A k \in Address : \A s \in {UNVERIFIED, VERIFIED, SUSPECTED} :
            _verificationCounter < MaxWrites =>
                ENABLED (\E att \in Attestations :
                            /\ Written(k, s, att)
                            /\ getVerificationStatus(k)[1]' = s))
    /\ [][\A user \in Address, att \in Attestations :
            \A status \in {UNVERIFIED, VERIFIED, SUSPECTED} :
              updateVerification(owner, user, status, att.attestationHash,
                                 att.confidenceScore)
                  => /\ lastCall'.result = "ok"
                     /\ getVerificationStatus(user)[1]' = status]_vars

(* A key that went to VERIFIED and from there back to UNVERIFIED. *)
C13_Witness ==
    \E k \in Address :
        /\ getVerificationHistory(k)[2] = <<VERIFIED, UNVERIFIED>>
        /\ getVerificationStatus(k)[1] = UNVERIFIED
        /\ lastCall.result = "ok"

(* C14: in every reachable state exactly one address is the owner (the one  *)
(* the onlyOwner gate lets through), and no step of the store -- an         *)
(* updateVerification that succeeds or fails -- changes who the owner is.   *)
C14_OneOwnerNeverChanged ==
    /\ [](Cardinality({c \in Callers : onlyOwner(c)}) = 1)
    /\ [][owner' = owner]_vars

(* After two writes and a rejected call the owner is still the deployer. *)
C14_Witness ==
    /\ owner = 1
    /\ getVerificationCount = 2
    /\ lastCall.op = "updateVerification"
    /\ lastCall.result = "Unauthorized"
    /\ lastCall.caller = 2

(* C15: constructing the store with the zero address as owner fails with    *)
(* InvalidOwner and yields no store (no owner, nothing written); a          *)
(* construction with a non-zero address makes exactly that address the      *)
(* owner of an empty store: count 0, no records, no history.                *)
C15_ConstructorSetsOwner ==
    /\ [](owner = 0 => getVerificationCount = 0 /\ writes = <<>> /\ events = <<>>)
    /\ [][\A deployer \in Callers, initialOwner \in InitialOwners :
            constructor(deployer, initialOwner) =>
                IF initialOwner = 0
                THEN /\ lastCall'.result = "InvalidOwner"
                     /\ owner' = 0
                     /\ SameReads
                ELSE /\ lastCall'.result = "ok"
                     /\ owner' = initialOwner
                     /\ \A c \in Callers : onlyOwner(c)' <=> c = initialOwner
                     /\ getVerificationCount' = 0
                     /\ \A k \in Address :
                          /\ getVerificationStatus(k)' = <<UNVERIFIED, "", 0, 0>>
                          /\ getVerificationHistory(k)' = <<(<<>>), (<<>>), (<<>>)>>]_vars

(* A deployment with address(0) as owner was rejected: still no store. *)
C15_Witness ==
    /\ lastCall.op = "constructor"
    /\ lastCall.result = "InvalidOwner"
    /\ owner = 0

(* C17: the three sequences getVerificationHistory(key) returns always have *)
(* the same length, and position i of each belongs to the same write: the   *)
(* triple at position i is the (timestamp, status, confidenceScore) of the  *)
(* i-th successful write to the key.                                        *)
C17_HistoryArraysAligned ==
    \A k \in Address :
        LET h == getVerificationHistory(k)
            ws == WritesTo(k)
        IN  /\ Len(h[1]) = Len(h[2])
            /\ Len(h[2]) = Len(h[3])
            /\ Len(h[1]) = Len(ws)
            /\ \A i \in 1..Len(h[1]) :
                  <<h[1][i], h[2][i], h[3][i]>> =
                      <<ws[i].timestamp, ws[i].status, ws[i].confidenceScore>>

(* Two entries of one key, the first with zero status and zero score. *)
C17_Witness ==
    \E k \in Address :
        LET h == getVerificationHistory(k)
        IN  /\ Len(h[1]) = 2 /\ Len(h[2]) = 2 /\ Len(h[3]) = 2
            /\ h[2][1] = UNVERIFIED /\ h[3][1] = 0
            /\ h[2][2] = SUSPECTED /\ h[3][2] = 90

(* C18: for every key with a non-empty history, the last history entry is   *)
(* the current record: its status code is the current status, its score the *)
(* current confidenceScore and its timestamp the current lastChecked.       *)
C18_LastEntryIsRecord ==
    \A k \in Address :
        LET h == getVerificationHistory(k)
            r == getVerificationStatus(k)
        IN  (h[1] # <<>> /\ h[2] # <<>> /\ h[3] # <<>>) =>
                /\ h[2][Len(h[2])] = r[1]
                /\ h[3][Len(h[3])] = r[4]
                /\ h[1][Len(h[1])] = r[3]

(* A key overwritten in a later block: the record is the second entry and   *)
(* differs from the first in status, score and time.                        *)
C18_Witness ==
    \E k \in Address :
        LET h == getVerificationHistory(k)
            r == getVerificationStatus(k)
        IN  /\ Len(h[1]) = 2
            /\ <<h[2][2], h[3][2], h[1][2]>> = <<r[1], r[4], r[3]>>
            /\ h[2][1] # r[1] /\ h[3][1] # r[4] /\ h[1][1] # r[3]

RECURSIVE SumOfHistoryLengths(_)
SumOfHistoryLengths(keys) ==
    IF keys = {} THEN 0
    ELSE LET k == CHOOSE a \in keys : TRUE
         IN  Len(getVerificationHistory(k)[1]) + SumOfHistoryLengths(keys \ {k})

(* C19: getVerificationCount() equals the sum over all keys of the length   *)
(* of getVerificationHistory(key), and the number of VerificationUpdated    *)
(* events emitted so far.                                                   *)
C19_CountIsHistoryAndEventTotal ==
    /\ getVerificationCount = SumOfHistoryLengths(Address)
    /\ getVerificationCount = Len(events)

(* One write to each key: two entries in all, two events, count 2. *)
C19_Witness ==
    /\ \A k \in Address : Len(getVerificationHistory(k)[1]) = 1
    /\ Len(events) = 2
    /\ getVerificationCount = 2

(* C20: for every key, the key was never successfully written if and only   *)
(* if its history is empty, and if and only if its lastChecked is 0; a key  *)
(* written back to UNVERIFIED with empty hash and zero score is therefore   *)
(* told apart from a key never written.                                     *)
C20_UnwrittenIffNoHistoryIffZeroTime ==
    \A k \in Address :
        /\ (WritesTo(k) = <<>>) <=> (getVerificationHistory(k) = <<(<<>>), (<<>>), (<<>>)>>)
        /\ (WritesTo(k) = <<>>) <=> (lastChecked(k) = 0)

(* One key written to (UNVERIFIED, "", 0), the other never written: they    *)
(* differ only in lastChecked and history.                                  *)
C20_Witness ==
    \E k \in Address, u \in Address :
        /\ WritesTo(u) = <<>>
        /\ WritesTo(k) # <<>>
        /\ getVerificationStatus(k)[1] = UNVERIFIED
        /\ getVerificationStatus(k)[2] = ""
        /\ getVerificationStatus(k)[4] = 0
        /\ getVerificationStatus(k) # getVerificationStatus(u)

(* C21: the owner check runs before the status validation: a call of        *)
(* updateVerification by a non-owner with status > 2 fails with             *)
(* Unauthorized, never with InvalidStatus.                                  *)
C21_OwnerCheckedBeforeStatus ==
    [][\A caller \in Callers, status \in StatusInputs :
          (caller # owner /\ status > 2 /\ CallBy(caller, status))
              => /\ lastCall'.result = "Unauthorized"
                 /\ lastCall'.result # "InvalidStatus"]_vars

(* A non-owner's call with status 3 before anything was written. *)
C21_Witness ==
    /\ lastCall.op = "updateVerification"
    /\ lastCall.caller # owner
    /\ lastCall.status > 2
    /\ lastCall.result = "Unauthorized"
    /\ getVerificationCount = 0

(* C22: run side by side on the same calls (same owner, callers, keys,      *)
(* status codes 0..2, hashes and block times), the variant without history  *)
(* and the variant with history return the same status, attestation hash    *)
(* and lastChecked for every key and the same count, and accept or reject   *)
(* the same calls.                                                          *)
C22_VariantsAgree ==
    /\ \A k \in Address :
          LegacyGetVerificationStatus(k) =
              <<getVerificationStatus(k)[1], getVerificationStatus(k)[2],
                getVerificationStatus(k)[3]>>
    /\ LegacyGetVerificationCount = getVerificationCount
    /\ legacyCall.result = lastCall.result
    /\ legacyCall.caller = lastCall.caller

(* Both variants took two writes to one key in different blocks and then    *)
(* rejected the same call of a non-owner.                                   *)
C22_Witness ==
    /\ LegacyGetVerificationCount = 2
    /\ getVerificationCount = 2
    /\ legacyCall.result = "Unauthorized"
    /\ lastCall.result = "Unauthorized"
    /\ \E k \in Address :
          /\ Len(WritesTo(k)) = 2
          /\ LegacyGetVerificationStatus(k) = <<SUSPECTED, "h1", 2>>
(* ---- Web3Provider ---- *)
WalletAddresses == WalletAccounts \cup {SAMPLE_ACCOUNTS[t] : t \in SampleTypes}

(* C23: in every reachable state of Web3Provider, isConnected is true      *)
(* exactly when account holds a wallet address (and so is not null), and    *)
(* exactly when mockType is not null.                                       *)
C23_ConnectedIffAccountIffType ==
    /\ isConnected <=> account \in WalletAddresses
    /\ isConnected <=> mockType # NULL

(* The part of the provider a connection attempt is about. *)
session == <<account, isConnected, mockType, localStorage>>

(* A run of connectRealWallet that does not succeed: it ends in the        *)
(* 'MetaMask Not Detected' toast or in the 'Connection Failed' toast.       *)
ConnectRealWalletFails ==
    \/ connectRealWallet /\ ~ethereum
    \/ connectRealWalletResumes /\ lastToast' = "Connection Failed"

(* C24: a step of connectRealWallet that ends the attempt without success   *)
(* leaves account, isConnected, mockType and both localStorage keys as      *)
(* they were, and leaves isConnecting false.                                *)
C24_FailedConnectChangesNothing ==
    [][ConnectRealWalletFails => (session' = session /\ isConnecting' = FALSE)]_vars

(* C25: a page load that follows a successful connection (the last toast    *)
(* is 'Wallet Connected') restores the connected address and type with      *)
(* isConnected true; a page load that follows a disconnect restores         *)
(* nothing.                                                                 *)
C25_SessionRoundTrips ==
    [][Mount =>
        /\ lastToast = "Wallet Connected" =>
              /\ account \in WalletAddresses
              /\ account' = account
              /\ isConnected' = TRUE
              /\ mockType' = mockType
              /\ mockType \in SampleTypes \cup {"real"}
        /\ lastToast = "Wallet Disconnected" =>
              /\ account' = NULL
              /\ isConnected' = FALSE
              /\ mockType' = NULL]_vars

(* A reloaded page that restored the sample suspected account. *)
C25_Witness ==
    /\ mounted
    /\ lastToast = ""
    /\ isConnected
    /\ account = SAMPLE_ACCOUNTS["suspected"]
    /\ mockType = "suspected"
(* ---- DashboardPage ---- *)
(* C26: whenever the dashboard shows a verification status (connected,      *)
(* verificationStatus not null, loading false), it is the status that was   *)
(* fetched for the connected account; a response for an earlier account is  *)
(* never what is shown for the new one.                                     *)
C26_ShownStatusIsOfCurrentAccount ==
    (mounted /\ isConnected /\ verificationStatus # NoStatus /\ ~loading)
        => verificationStatus = StatusOf(account)

(* A run of requestReVerification comes to its end: its finally block runs. *)
ReVerificationEnds ==
    \/ requestReVerificationEnds
    \/ analyzeResponds /\ Len(reVerifications') < Len(reVerifications)

(* C27: loading is true as long as a run of requestReVerification is in     *)
(* progress, so no second run is started while one is in progress; when a   *)
(* run ends, loading is false and progressStep is null.                     *)
C27_LoadingThroughoutReVerification ==
    /\ [](reVerifications # <<>> => loading)
    /\ [](Len(reVerifications) <= 1)
    /\ [][ReVerificationEnds => (loading' = FALSE /\ progressStep' = NULL)]_vars

(* The order in which the progress steps may follow each other. *)
ProgressOrder ==
    {<<NULL, "fetching">>, <<"fetching", "predicting">>,
     <<"predicting", "scoring">>, <<"scoring", "saving">>,
     <<"saving", "done">>, <<"done", NULL>>, <<"saving", NULL>>}

(* The analyze request of some run is sent in this step. *)
AnalyzeSent ==
    \E i \in 1..Len(reVerifications) :
        /\ Len(reVerifications') = Len(reVerifications)
        /\ reVerifications[i].at # "analyze"
        /\ reVerifications'[i].at = "analyze"

(* C28: while the page stays loaded, the progress step only moves along     *)
(* fetching, predicting, scoring, saving, done and is then cleared; the     *)
(* analyze request is sent while 'saving' is shown; 'done' appears only     *)
(* with the success of that request; on its failure the progress goes from  *)
(* 'saving' to cleared.                                                     *)
C28_ProgressStepsInOrder ==
    [][~OpenDashboard =>
        /\ progressStep' # progressStep =>
              <<progressStep, progressStep'>> \in ProgressOrder
        /\ AnalyzeSent => progressStep = "saving"
        /\ (progressStep' = "done" /\ progressStep # "done") =>
              (analyzeResponds /\ lastToast' = "Re-verification Completed")
        /\ (analyzeResponds /\ Len(reVerifications') < Len(reVerifications)) =>
              (progressStep = "saving" /\ progressStep' = NULL)]_vars

====
